---- MODULE Spec2Model ----
(***************************************************************************)
(* Model of the ledger calculator of src/cli.py: the interest strategy,    *)
(* the Advance accumulator, the UserGlobalBalance engine that allocates    *)
(* payments over the advances, and the `balances` command that replays the *)
(* stored events up to a cutoff date.  A last part runs the engine next to  *)
(* two reference runs: one never asked for a statement, one accrued one    *)
(* day at a time.                                                          *)
(*                                                                         *)
(* Money is a Python Decimal.  A Decimal is modelled exactly as a          *)
(* fixed-point number in base 10^4: a sequence <<d1, d2, ..., dN>> whose   *)
(* value is d1 + d2/Base + d3/Base^2 + ..., with d1 any integer and        *)
(* 0 <= di < Base for i > 1.  Every value has exactly one such form, so    *)
(* equality of values is equality of sequences.  The number of limbs grows *)
(* with MaxOps, so that no digit of a product is ever dropped within the   *)
(* bounds (far below the 28 significant digits of the decimal context).    *)
(* Dates are day numbers.                                                  *)
(***************************************************************************)
EXTENDS Integers, Sequences, FiniteSets, TLC

\* ------------------------------------------------------------------ bounds
MaxOps == 4
MaxDay == 2
MaxRows == 3

Base == 10 ^ 4
Limbs == MaxOps + 1
N == Limbs + 1

\* Body(v) with v evaluated once, before Body: a value bound by a quantifier
\* is computed when it is bound, while a definition of a LET or an argument
\* of an operator may be computed again wherever it is used.
Bind(v, Body(_)) == CHOOSE r \in {Body(x) : x \in {v}} : TRUE

\* ------------------------------------------------------ Decimal arithmetic
RECURSIVE Carry(_, _, _)
Carry(raw, i, c) ==
    IF i = 1 THEN <<raw[1] + c>>
    ELSE Carry(raw, i - 1, (raw[i] + c) \div Base) \o <<(raw[i] + c) % Base>>

Norm(raw) == Carry(raw, N, 0)

DecInt(n) == [i \in 1..N |-> IF i = 1 THEN n ELSE 0]
Zero == DecInt(0)
One == DecInt(1)

Add(x, y) == Norm([i \in 1..N |-> x[i] + y[i]])
Sub(x, y) == Norm([i \in 1..N |-> x[i] - y[i]])
MulInt(x, k) == Norm([i \in 1..N |-> x[i] * k])

\* limb k of the product x * y before carrying, for a y of at most three limbs
\* (an integer and eight decimal places, as the rate times a number of days is)
Conv(x, y, k) ==
    IF k = 1 THEN x[1] * y[1]
    ELSE IF k = 2 THEN x[1] * y[2] + x[2] * y[1]
    ELSE x[k] * y[1] + x[k - 1] * y[2] + x[k - 2] * y[3]

Mul(x, y) == Norm([k \in 1..N |-> Conv(x, y, k)])

IsNeg(x) == x[1] < 0
LE(x, y) == ~IsNeg(Sub(y, x))
GT(x, y) == IsNeg(Sub(y, x))
Min(x, y) == IF LE(x, y) THEN x ELSE y
Max(x, y) == IF LE(x, y) THEN y ELSE x

RECURSIVE SumDec(_, _)
SumDec(f, i) == IF i = 0 THEN Zero ELSE Add(SumDec(f, i - 1), f[i])

\* ------------------------------------------------------- interest strategy
DailyInterest == [i \in 1..N |-> IF i = 2 THEN 3 ELSE IF i = 3 THEN 5000 ELSE 0]

\* Decimal("1") + self.daily_interest * days, for every period the bounds allow
GrowthFactor[days \in (0 - MaxDay - 1)..(MaxDay + 1)] ==
    Add(One, MulInt(DailyInterest, days))

\* faulty variant: the interest of a period does not depend on the amount
Calculate_IgnoresAmount(amount, days) == Sub(GrowthFactor[days], One)

Calculate(amount, days) == Sub(Mul(amount, GrowthFactor[days]), amount)

\* ------------------------------------------------------------------ Advance
NewAdvance(identifier, balance, created_at) ==
    [identifier |-> identifier,
     created_at |-> created_at,
     updated_at |-> created_at,
     initial_amount |-> balance,
     balance |-> balance,
     interest_payable_balance |-> Zero,
     interest_paid |-> Zero]

\* faulty variant: the accrual forgets to move updated_at
CalculateInterestPayableBalance_KeepsDate(adv, date) ==
    [adv EXCEPT
        !.interest_payable_balance =
            Add(@, Calculate(adv.balance, date - adv.updated_at))]

\* faulty variant: interest is charged on the principal plus the interest payable
CalculateInterestPayableBalance_Compounds(adv, date) ==
    [adv EXCEPT
        !.interest_payable_balance =
            Add(@, Calculate(Add(adv.balance, adv.interest_payable_balance),
                             date - adv.updated_at)),
        !.updated_at = date]

\* Advance.calculate_interest_payable_balance: no check on the sign of the period
CalculateInterestPayableBalance(adv, date) ==
    [adv EXCEPT
        !.interest_payable_balance =
            Add(@, Calculate(adv.balance, date - adv.updated_at)),
        !.updated_at = date]

\* faulty variant: pay without the branch for an amount above the balance
Pay_AlwaysSubtracts(adv, amount) ==
    [adv |-> [adv EXCEPT !.balance = Sub(@, amount)], rem |-> Zero]

\* faulty variant: pay books what it takes off the principal as interest paid
Pay_BooksInterestPaid(adv, amount) ==
    IF LE(amount, adv.balance)
    THEN [adv |-> [adv EXCEPT !.balance = Sub(@, amount),
                              !.interest_paid = Add(@, amount)],
          rem |-> Zero]
    ELSE [adv |-> [adv EXCEPT !.balance = Zero,
                              !.interest_paid = Add(@, adv.balance)],
          rem |-> Sub(amount, adv.balance)]

\* Advance.pay: the advance after the call and the returned remainder
Pay(adv, amount) ==
    IF LE(amount, adv.balance)
    THEN [adv |-> [adv EXCEPT !.balance = Sub(@, amount)], rem |-> Zero]
    ELSE [adv |-> [adv EXCEPT !.balance = Zero],
          rem |-> Sub(amount, adv.balance)]

\* faulty variant: an overpayment books the whole amount as interest paid
PayInterest_BooksAmount(adv, amount, paid_date) ==
    LET a == CalculateInterestPayableBalance(adv, paid_date) IN
    IF LE(amount, a.interest_payable_balance)
    THEN [adv |-> [a EXCEPT !.interest_payable_balance = Sub(@, amount),
                            !.interest_paid = Add(@, amount)],
          rem |-> Zero]
    ELSE [adv |-> [a EXCEPT !.interest_paid = Add(@, amount),
                            !.interest_payable_balance = Zero],
          rem |-> Sub(amount, a.interest_payable_balance)]

\* faulty variant: pay_interest pays without accruing through the paid date first
PayInterest_NoAccrual(adv, amount, paid_date) ==
    IF LE(amount, adv.interest_payable_balance)
    THEN [adv |-> [adv EXCEPT !.interest_payable_balance = Sub(@, amount),
                              !.interest_paid = Add(@, amount)],
          rem |-> Zero]
    ELSE [adv |-> [adv EXCEPT !.interest_paid = Add(@, adv.interest_payable_balance),
                              !.interest_payable_balance = Zero],
          rem |-> Sub(amount, adv.interest_payable_balance)]

\* Advance.pay_interest: the advance after the call and the returned remainder
PayInterest(adv, amount, paid_date) ==
    LET a == CalculateInterestPayableBalance(adv, paid_date) IN
    IF LE(amount, a.interest_payable_balance)
    THEN [adv |-> [a EXCEPT !.interest_payable_balance = Sub(@, amount),
                            !.interest_paid = Add(@, amount)],
          rem |-> Zero]
    ELSE [adv |-> [a EXCEPT !.interest_paid = Add(@, a.interest_payable_balance),
                            !.interest_payable_balance = Zero],
          rem |-> Sub(amount, a.interest_payable_balance)]

\* faulty variant: the statement accrues through the query date, not the day after
GetStatement_NoExtraDay(adv, date) ==
    LET a == CalculateInterestPayableBalance(adv, date) IN
    [adv |-> a,
     out |-> [identifier |-> a.identifier,
              created_at |-> a.created_at,
              initial_amount |-> a.initial_amount,
              balance |-> a.balance,
              interest_payable_balance |-> a.interest_payable_balance,
              interest_paid |-> a.interest_paid]]

\* Advance.get_statement: the advance after the call and the returned statement
GetStatement(adv, date) ==
    LET a == CalculateInterestPayableBalance(adv, date + 1) IN
    [adv |-> a,
     out |-> [identifier |-> a.identifier,
              created_at |-> a.created_at,
              initial_amount |-> a.initial_amount,
              balance |-> a.balance,
              interest_payable_balance |-> a.interest_payable_balance,
              interest_paid |-> a.interest_paid]]

\* -------------------------------------------------------- UserGlobalBalance
\* faulty variant: the first loop pays the interest of one advance only
InterestPhase_OneAdvance(advs, i, amount, date, calls) ==
    IF i > Len(advs) THEN [advs |-> advs, amount |-> amount, calls |-> calls]
    ELSE Bind(PayInterest(advs[i], amount, date), LAMBDA r :
            [advs |-> [advs EXCEPT ![i] = r.adv], amount |-> r.rem,
             calls |-> Append(calls, amount)])

\* faulty variant: the first loop goes on after the amount is used up
RECURSIVE InterestPhase_NoBreak(_, _, _, _, _)
InterestPhase_NoBreak(advs, i, amount, date, calls) ==
    IF i > Len(advs) THEN [advs |-> advs, amount |-> amount, calls |-> calls]
    ELSE Bind(PayInterest(advs[i], amount, date), LAMBDA r :
            InterestPhase_NoBreak([advs EXCEPT ![i] = r.adv], i + 1, r.rem, date,
                                  Append(calls, amount)))

\* First loop of pay_advance, from advance i on.  calls is the amount handed to
\* pay_interest for each advance the loop reached.
RECURSIVE InterestPhase(_, _, _, _, _)
InterestPhase(advs, i, amount, date, calls) ==
    IF i > Len(advs) THEN [advs |-> advs, amount |-> amount, calls |-> calls]
    ELSE Bind(PayInterest(advs[i], amount, date), LAMBDA r :
            IF r.rem = Zero
            THEN [advs |-> [advs EXCEPT ![i] = r.adv], amount |-> Zero,
                  calls |-> Append(calls, amount)]
            ELSE InterestPhase([advs EXCEPT ![i] = r.adv], i + 1, r.rem, date,
                               Append(calls, amount)))

\* faulty variant: every advance is offered the whole amount, not what is left
RECURSIVE PrincipalPhase_FullAmountEach(_, _, _, _)
PrincipalPhase_FullAmountEach(advs, i, amount, calls) ==
    IF i > Len(advs) THEN [advs |-> advs, amount |-> amount, calls |-> calls]
    ELSE Bind(Pay(advs[i], amount), LAMBDA r :
            IF r.rem = Zero
            THEN [advs |-> [advs EXCEPT ![i] = r.adv], amount |-> Zero,
                  calls |-> Append(calls, amount)]
            ELSE PrincipalPhase_FullAmountEach([advs EXCEPT ![i] = r.adv], i + 1,
                                               amount, Append(calls, amount)))

\* Second loop of pay_advance, from advance i on.  calls is the amount handed to
\* pay for each advance the loop reached.
RECURSIVE PrincipalPhase(_, _, _, _)
PrincipalPhase(advs, i, amount, calls) ==
    IF i > Len(advs) THEN [advs |-> advs, amount |-> amount, calls |-> calls]
    ELSE Bind(Pay(advs[i], amount), LAMBDA r :
            IF r.rem = Zero
            THEN [advs |-> [advs EXCEPT ![i] = r.adv], amount |-> Zero,
                  calls |-> Append(calls, amount)]
            ELSE PrincipalPhase([advs EXCEPT ![i] = r.adv], i + 1, r.rem,
                                Append(calls, amount)))

\* faulty variant: the remainder replaces the credit instead of adding to it
PayAdvance_AssignsFuture(advs, future, amount, date) ==
    Bind(InterestPhase(advs, 1, amount, date, <<>>), LAMBDA ip :
    Bind(IF GT(ip.amount, Zero) THEN PrincipalPhase(ip.advs, 1, ip.amount, <<>>)
         ELSE [advs |-> ip.advs, amount |-> ip.amount, calls |-> <<>>], LAMBDA pp :
        [advs |-> pp.advs,
         future |-> IF GT(pp.amount, Zero) THEN pp.amount ELSE future,
         pay_ran |-> TRUE,
         pay_amount |-> amount,
         pay_pre |-> advs,
         calls |-> ip.calls,
         mid |-> ip.advs,
         interest_rem |-> ip.amount,
         principal_ran |-> GT(ip.amount, Zero),
         principal_calls |-> pp.calls,
         principal_rem |-> pp.amount]))

\* faulty variant: what the interest phase leaves goes to the credit at once
PayAdvance_SkipsPrincipal(advs, future, amount, date) ==
    Bind(InterestPhase(advs, 1, amount, date, <<>>), LAMBDA ip :
        [advs |-> ip.advs,
         future |-> IF GT(ip.amount, Zero) THEN Add(future, ip.amount) ELSE future,
         pay_ran |-> TRUE,
         pay_amount |-> amount,
         pay_pre |-> advs,
         calls |-> ip.calls,
         mid |-> ip.advs,
         interest_rem |-> ip.amount,
         principal_ran |-> FALSE,
         principal_calls |-> <<>>,
         principal_rem |-> ip.amount])

\* UserGlobalBalance.pay_advance on the engine state (advs, future)
PayAdvance(advs, future, amount, date) ==
    Bind(InterestPhase(advs, 1, amount, date, <<>>), LAMBDA ip :
    Bind(IF GT(ip.amount, Zero) THEN PrincipalPhase(ip.advs, 1, ip.amount, <<>>)
         ELSE [advs |-> ip.advs, amount |-> ip.amount, calls |-> <<>>], LAMBDA pp :
        [advs |-> pp.advs,
         future |-> IF GT(pp.amount, Zero) THEN Add(future, pp.amount) ELSE future,
         pay_ran |-> TRUE,
         pay_amount |-> amount,
         pay_pre |-> advs,
         calls |-> ip.calls,
         mid |-> ip.advs,
         interest_rem |-> ip.amount,
         principal_ran |-> GT(ip.amount, Zero),
         principal_calls |-> pp.calls,
         principal_rem |-> pp.amount]))

\* faulty variant: the credit is not reset before it is allocated
CreateAdvance_KeepsFuture(advs, future, balance, create_date) ==
    LET appended == Append(advs, NewAdvance(Len(advs) + 1, balance, create_date)) IN
    IF GT(future, Zero)
    THEN PayAdvance(appended, future, future, create_date)
    ELSE [advs |-> appended,
          future |-> future,
          pay_ran |-> FALSE,
          pay_amount |-> Zero,
          pay_pre |-> appended,
          calls |-> <<>>,
          mid |-> appended,
          interest_rem |-> Zero,
          principal_ran |-> FALSE,
          principal_calls |-> <<>>,
          principal_rem |-> Zero]

\* faulty variant: the identifier is the number of advances before the append
CreateAdvance_IdentifierFromZero(advs, future, balance, create_date) ==
    LET appended == Append(advs, NewAdvance(Len(advs), balance, create_date)) IN
    IF GT(future, Zero)
    THEN PayAdvance(appended, Zero, future, create_date)
    ELSE [advs |-> appended,
          future |-> future,
          pay_ran |-> FALSE,
          pay_amount |-> Zero,
          pay_pre |-> appended,
          calls |-> <<>>,
          mid |-> appended,
          interest_rem |-> Zero,
          principal_ran |-> FALSE,
          principal_calls |-> <<>>,
          principal_rem |-> Zero]

\* UserGlobalBalance.create_advance
CreateAdvance(advs, future, balance, create_date) ==
    LET appended == Append(advs, NewAdvance(Len(advs) + 1, balance, create_date)) IN
    IF GT(future, Zero)
    THEN PayAdvance(appended, Zero, future, create_date)
    ELSE [advs |-> appended,
          future |-> future,
          pay_ran |-> FALSE,
          pay_amount |-> Zero,
          pay_pre |-> appended,
          calls |-> <<>>,
          mid |-> appended,
          interest_rem |-> Zero,
          principal_ran |-> FALSE,
          principal_calls |-> <<>>,
          principal_rem |-> Zero]

\* faulty variant: the total of interest paid adds up the interest payable
GetGlobalStatement_PaidFromPayable(advs, future, end_date) ==
    LET sts == [i \in 1..Len(advs) |-> GetStatement(advs[i], end_date)]
        outs == [i \in 1..Len(advs) |-> sts[i].out]
    IN [advs |-> [i \in 1..Len(advs) |-> sts[i].adv],
        out |-> [overall_payments_for_future |-> future,
                 overall_advance_balance |->
                     SumDec([i \in 1..Len(advs) |-> outs[i].balance], Len(advs)),
                 overall_interest_payable_balance |->
                     SumDec([i \in 1..Len(advs) |-> outs[i].interest_payable_balance],
                            Len(advs)),
                 overall_interest_paid |->
                     SumDec([i \in 1..Len(advs) |-> outs[i].interest_payable_balance],
                            Len(advs)),
                 individual_advance_statement |-> outs]]

\* UserGlobalBalance.get_global_statement
GetGlobalStatement(advs, future, end_date) ==
    LET sts == [i \in 1..Len(advs) |-> GetStatement(advs[i], end_date)]
        outs == [i \in 1..Len(advs) |-> sts[i].out]
    IN [advs |-> [i \in 1..Len(advs) |-> sts[i].adv],
        out |-> [overall_payments_for_future |-> future,
                 overall_advance_balance |->
                     SumDec([i \in 1..Len(advs) |-> outs[i].balance], Len(advs)),
                 overall_interest_payable_balance |->
                     SumDec([i \in 1..Len(advs) |-> outs[i].interest_payable_balance],
                            Len(advs)),
                 overall_interest_paid |->
                     SumDec([i \in 1..Len(advs) |-> outs[i].interest_paid], Len(advs)),
                 individual_advance_statement |-> outs]]

\* ------------------------------------------------------------------- state
VARIABLES
    actives_advances,             \* UserGlobalBalance.actives_advances
    overall_payments_for_future,  \* UserGlobalBalance.overall_payments_for_future
    replay_date,                  \* date of the last event fed to the engine
    nops,                         \* calls made so far
    last,                         \* the last call: arguments, state at entry, result
    events,                       \* rows of the events table, in insertion order
    report,                       \* what the last balances command computed
    reference                     \* reference runs fed with the same events

vars == <<actives_advances, overall_payments_for_future, replay_date, nops, last,
          events, report, reference>>

\* amounts of the events of the log: positive, as the event source delivers them
AdvanceAmounts == {DecInt(5000), DecInt(10000)}
PaymentAmounts == {DecInt(1), DecInt(10000)}
\* amounts the core can be handed when nothing upstream validates them
RawAdvanceAmounts == AdvanceAmounts \cup {Zero, DecInt(-1)}
RawPaymentAmounts == PaymentAmounts \cup {Zero, DecInt(-1)}

NoOut == [overall_payments_for_future |-> Zero,
          overall_advance_balance |-> Zero,
          overall_interest_payable_balance |-> Zero,
          overall_interest_paid |-> Zero,
          individual_advance_statement |-> <<>>]

\* no balances command has run since the last load
NoReport == [ran |-> FALSE, end_date |-> 0, events |-> <<>>,
             applied |-> <<>>, out |-> NoOut]

\* The reference runs before any event.  plain is a second engine that is fed
\* the events and never asked for a statement; daily is an engine whose
\* advances are all accrued one day at a time, accrued holding for each advance
\* the sum of its daily charges; asked is the latest as-of date of the
\* statements made since the last event (-1 if none), strict says that every
\* statement so far was as of a date before the next event's date, and
\* intermediate that some statement was followed by an event.
NoReference ==
    [plain_advs |-> <<>>, plain_future |-> Zero,
     daily_advs |-> <<>>, daily_accrued |-> <<>>, daily_future |-> Zero,
     day |-> 0, asked |-> 0 - 1, strict |-> TRUE, intermediate |-> FALSE]

Init ==
    /\ actives_advances = <<>>
    /\ overall_payments_for_future = Zero
    /\ replay_date = 0
    /\ nops = 0
    /\ last = [op |-> "init", amount |-> Zero, date |-> 0,
               prev_op |-> "init", prev_date |-> 0, prev_out |-> NoOut,
               pre |-> <<>>, pre_future |-> Zero,
               pay_ran |-> FALSE, pay_amount |-> Zero, pay_pre |-> <<>>,
               calls |-> <<>>, mid |-> <<>>, interest_rem |-> Zero,
               principal_ran |-> FALSE, principal_calls |-> <<>>,
               principal_rem |-> Zero, out |-> NoOut]
    /\ events = <<>>
    /\ report = NoReport
    /\ reference = NoReference

Record(op, amount, date, r, out) ==
    [op |-> op, amount |-> amount, date |-> date,
     prev_op |-> last.op, prev_date |-> last.date, prev_out |-> last.out,
     pre |-> actives_advances, pre_future |-> overall_payments_for_future,
     pay_ran |-> r.pay_ran, pay_amount |-> r.pay_amount, pay_pre |-> r.pay_pre,
     calls |-> r.calls, mid |-> r.mid, interest_rem |-> r.interest_rem,
     principal_ran |-> r.principal_ran, principal_calls |-> r.principal_calls,
     principal_rem |-> r.principal_rem, out |-> out]

\* the engine after a call returned r, and the record of the call
Step(op, amount, date, event_date, r, out) ==
    /\ actives_advances' = r.advs
    /\ overall_payments_for_future' = r.future
    /\ replay_date' = event_date
    /\ nops' = nops + 1
    /\ last' = Record(op, amount, date, r, out)

Apply(op, amount, date, event_date, r, out) ==
    /\ Step(op, amount, date, event_date, r, out)
    /\ UNCHANGED <<events, report, reference>>

\* an "advance" event of the log reaches create_advance
AdvanceEvent(amounts) ==
    /\ nops < MaxOps
    /\ \E amount \in amounts, date \in replay_date..MaxDay :
        Apply("advance", amount, date, date,
              CreateAdvance(actives_advances, overall_payments_for_future,
                            amount, date),
              NoOut)

\* a "payment" event of the log reaches pay_advance
PaymentEvent(amounts) ==
    /\ nops < MaxOps
    /\ \E amount \in amounts, date \in replay_date..MaxDay :
        Apply("payment", amount, date, date,
              PayAdvance(actives_advances, overall_payments_for_future,
                         amount, date),
              NoOut)

\* the engine state and call record of a statement that returned st
Reported(st) ==
    [advs |-> st.advs, future |-> overall_payments_for_future,
     pay_ran |-> FALSE, pay_amount |-> Zero, pay_pre |-> actives_advances,
     calls |-> <<>>, mid |-> actives_advances, interest_rem |-> Zero,
     principal_ran |-> FALSE, principal_calls |-> <<>>, principal_rem |-> Zero,
     out |-> st.out]

ApplyStatement(date, r) == Apply("statement", Zero, date, replay_date, r, r.out)

\* get_global_statement as of a date not before the last event applied
StatementQuery ==
    /\ nops < MaxOps
    /\ \E date \in replay_date..MaxDay :
        ApplyStatement(date,
            Reported(GetGlobalStatement(actives_advances,
                                        overall_payments_for_future, date)))

Next ==
    \/ AdvanceEvent(AdvanceAmounts)
    \/ PaymentEvent(PaymentAmounts)
    \/ StatementQuery

Spec == Init /\ [][Next]_vars

\* the core fed with amounts nothing has validated
NextRaw ==
    \/ AdvanceEvent(RawAdvanceAmounts)
    \/ PaymentEvent(RawPaymentAmounts)
    \/ StatementQuery

SpecRaw == Init /\ [][NextRaw]_vars

\* ------------------------------------------------------- balances command
\* rows a csv file can hold: type, amount, date_created
Rows ==
    [type : {"advance", "payment"}, amount : {DecInt(10000)},
     date_created : 0..MaxDay]

\* "select * from events order by date_created asc": rows by date, rows of one
\* date in insertion order
RECURSIVE SortByDate(_, _)
SortByDate(rows, d) ==
    IF d < 0 THEN <<>>
    ELSE SortByDate(rows, d - 1)
         \o SelectSeq(rows, LAMBDA e : e.date_created = d)

\* faulty variant: the cutoff leaves out the events of the query date itself
ReplayEvent_StrictCutoff(eng, e, end_date) ==
    IF end_date > e.date_created
    THEN Bind(IF e.type = "advance"
              THEN CreateAdvance(eng.advs, eng.future, e.amount, e.date_created)
              ELSE PayAdvance(eng.advs, eng.future, e.amount, e.date_created),
              LAMBDA r : [advs |-> r.advs, future |-> r.future,
                          applied |-> Append(eng.applied, e)])
    ELSE eng

\* one turn of the loop of balances over the fetched rows
ReplayEvent(eng, e, end_date) ==
    IF end_date >= e.date_created
    THEN Bind(IF e.type = "advance"
              THEN CreateAdvance(eng.advs, eng.future, e.amount, e.date_created)
              ELSE PayAdvance(eng.advs, eng.future, e.amount, e.date_created),
              LAMBDA r : [advs |-> r.advs, future |-> r.future,
                          applied |-> Append(eng.applied, e)])
    ELSE eng

\* the loop of balances, from row i on
RECURSIVE Replay(_, _, _, _)
Replay(rows, i, end_date, eng) ==
    IF i > Len(rows) THEN eng
    ELSE Bind(ReplayEvent(eng, rows[i], end_date),
              LAMBDA next : Replay(rows, i + 1, end_date, next))

NewEngine == [advs |-> <<>>, future |-> Zero, applied |-> <<>>]

\* balances: the engine after the loop and the statement it gives
Balances(rows, end_date) ==
    Bind(SortByDate(rows, MaxDay), LAMBDA fetched :
    Bind(Replay(fetched, 1, end_date, NewEngine), LAMBDA eng :
        [ran |-> TRUE, end_date |-> end_date, events |-> rows,
         applied |-> eng.applied,
         out |-> GetGlobalStatement(eng.advs, eng.future, end_date).out]))

\* load: the rows of a csv file are inserted in file order
Load ==
    /\ \E n \in 1..2 : \E file \in [1..n -> Rows] :
        /\ Len(events) + n <= MaxRows
        /\ events' = events \o file
    /\ report' = NoReport
    /\ UNCHANGED <<actives_advances, overall_payments_for_future, replay_date,
                   nops, last, reference>>

\* balances end_date
BalancesCommand ==
    /\ \E end_date \in 0..MaxDay : report' = Balances(events, end_date)
    /\ UNCHANGED <<actives_advances, overall_payments_for_future, replay_date,
                   nops, last, events, reference>>

NextCli == Load \/ BalancesCommand

SpecCli == Init /\ [][NextCli]_vars

\* ------------------------------------------------------- claims: vocabulary
Advs == 1..Len(actives_advances)
Pre == 1..Len(last.pre)
\* the amount P x rate x n of the specification's interest formula
SimpleInterest(p, n) == MulInt(Mul(p, DailyInterest), n)
\* interest owed by advance a once accrued through date
Owed(a, date) ==
    Add(a.interest_payable_balance, SimpleInterest(a.balance, date - a.updated_at))
\* what the advances at the entry of pay_advance owe in all on that date
RECURSIVE Outstanding(_, _, _)
Outstanding(advs, date, i) ==
    IF i = 0 THEN Zero
    ELSE Add(Outstanding(advs, date, i - 1),
             Add(Owed(advs[i], date), advs[i].balance))
\* the credit the pay_advance call of the last handler started from
PayEntryFuture == IF last.op = "advance" THEN Zero ELSE last.pre_future

\* C1: in every reachable state (events with amount > 0 in non-decreasing date
\* order, statements as of a date not before the last event), every advance has
\* principal_balance >= 0, interest_payable_balance >= 0 and
\* principal_balance <= initial_amount.
C1_BalancesInRange ==
    \A i \in Advs :
        /\ LE(Zero, actives_advances[i].balance)
        /\ LE(Zero, actives_advances[i].interest_payable_balance)
        /\ LE(actives_advances[i].balance, actives_advances[i].initial_amount)

C1_Witness ==
    \E i \in Advs :
        /\ GT(actives_advances[i].balance, Zero)
        /\ GT(actives_advances[i].initial_amount, actives_advances[i].balance)
        /\ GT(actives_advances[i].interest_payable_balance, Zero)
        /\ GT(actives_advances[i].interest_paid, Zero)

\* C2: within one pay_advance call on date d, the principal of an advance is
\* reduced only if that payment brought the interest payable of every existing
\* advance, accrued through d, to 0; and the future credit grows only if every
\* advance ends the call with no interest payable and no principal.
C2_PhasePrecedence ==
    last.pay_ran =>
        /\ (\E i \in Advs :
                GT(last.pay_pre[i].balance, actives_advances[i].balance))
            => \A i \in Advs :
                /\ last.mid[i].updated_at = last.date
                /\ last.mid[i].interest_payable_balance = Zero
                /\ actives_advances[i].interest_payable_balance = Zero
        /\ GT(overall_payments_for_future, PayEntryFuture)
            => \A i \in Advs :
                /\ actives_advances[i].interest_payable_balance = Zero
                /\ actives_advances[i].balance = Zero

C2_Witness ==
    /\ last.op = "payment"
    /\ Len(actives_advances) >= 2
    /\ \E i \in Advs : GT(last.pay_pre[i].balance, actives_advances[i].balance)
    /\ \E i \in Advs : GT(Owed(last.pay_pre[i], last.date), Zero)
    /\ GT(overall_payments_for_future, last.pre_future)

\* C3: an advance event of amount A arriving while the future credit is c > 0
\* applies the whole credit to the new advance and to no other: the new advance
\* ends with principal max(A - c, 0), no interest payable and no interest paid,
\* the earlier advances keep their principal and interest paid, and the credit
\* left is max(c - A, 0).
C3_CarryForward ==
    (last.op = "advance" /\ GT(last.pre_future, Zero)) =>
        LET n == Len(last.pre) + 1
            A == last.amount
            c == last.pre_future
        IN /\ Len(actives_advances) = n
           /\ actives_advances[n].balance = Max(Sub(A, c), Zero)
           /\ actives_advances[n].interest_payable_balance = Zero
           /\ actives_advances[n].interest_paid = Zero
           /\ \A i \in Pre :
                /\ actives_advances[i].balance = last.pre[i].balance
                /\ actives_advances[i].interest_paid = last.pre[i].interest_paid
           /\ overall_payments_for_future = Max(Sub(c, A), Zero)

C3_Witness ==
    /\ last.op = "advance"
    /\ GT(last.pre_future, Zero)
    /\ Len(last.pre) >= 1
    /\ GT(last.pre[1].interest_paid, Zero)
    /\ GT(overall_payments_for_future, Zero)

\* C4: a payment of amount m on date d adds to the future credit exactly
\* max(0, m - O), O being what the existing advances owe in interest (accrued
\* through d) and principal at the entry of the call; with no advance the whole
\* amount becomes credit and no advance is created.
C4_ExcessToFuture ==
    last.op = "payment" =>
        /\ Sub(overall_payments_for_future, last.pre_future) =
              Max(Zero, Sub(last.amount,
                            Outstanding(last.pre, last.date, Len(last.pre))))
        /\ Len(actives_advances) = Len(last.pre)
        /\ last.pre = <<>> =>
              /\ actives_advances = <<>>
              /\ overall_payments_for_future = Add(last.pre_future, last.amount)

C4_Witness ==
    /\ last.op = "payment"
    /\ Len(last.pre) >= 2
    /\ GT(Outstanding(last.pre, last.date, Len(last.pre)), Zero)
    /\ GT(overall_payments_for_future, last.pre_future)

C4_WitnessNoAdvance ==
    /\ last.op = "payment"
    /\ last.pre = <<>>
    /\ GT(last.pre_future, Zero)

\* C5: a statement as of d asked twice in a row returns the same output both
\* times, and the second call leaves every field of the state unchanged.
C5_StatementIdempotent ==
    (last.op = "statement" /\ last.prev_op = "statement"
        /\ last.prev_date = last.date) =>
        /\ last.out = last.prev_out
        /\ actives_advances = last.pre
        /\ overall_payments_for_future = last.pre_future

C5_Witness ==
    /\ last.op = "statement"
    /\ last.prev_op = "statement"
    /\ last.prev_date = last.date
    /\ \E i \in Advs :
        /\ GT(actives_advances[i].balance, Zero)
        /\ GT(actives_advances[i].interest_payable_balance, Zero)
        /\ GT(actives_advances[i].interest_paid, Zero)

\* C6: an event is applied by balances iff its date is <= the as_of date d, so
\* two event logs that agree on their events dated <= d give the same statement
\* as of d: events dated after d never influence the result.  Stated on one
\* log: the statement of a log is the statement of its events dated <= d, which
\* two logs that agree on those events share.
C6_QueryCutoff ==
    report.ran =>
        LET d == report.end_date
            upto == SelectSeq(report.events, LAMBDA e : e.date_created <= d)
        IN /\ report.applied = SortByDate(upto, MaxDay)
           /\ Balances(upto, d).out = report.out

C6_Witness ==
    /\ report.ran
    /\ \E i \in 1..Len(report.events) :
        /\ report.events[i].date_created > report.end_date
        /\ \E j \in (i + 1)..Len(report.events) :
            report.events[j].date_created = report.end_date
    /\ Len(report.applied) >= 2
    /\ Len(report.out.individual_advance_statement) >= 1

\* C7: an accrual asked for a date strictly before the advance's updated_at
\* reports an error and changes neither interest_payable_balance nor updated_at;
\* it never applies a zero or negative period silently.
C7_OutOfOrderRejected ==
    last.pay_ran =>
        \A i \in 1..Len(last.calls) :
            last.date < last.pay_pre[i].updated_at =>
                /\ last.mid[i].updated_at = last.pay_pre[i].updated_at
                /\ Add(last.mid[i].interest_payable_balance, last.mid[i].interest_paid)
                     = Add(last.pay_pre[i].interest_payable_balance,
                           last.pay_pre[i].interest_paid)

\* C8: an advance or payment event with amount <= 0 handed to the core is an
\* input error and leaves the engine state unchanged.
C8_NonPositiveAmountRejected ==
    (last.op \in {"advance", "payment"} /\ LE(last.amount, Zero)) =>
        /\ actives_advances = last.pre
        /\ overall_payments_for_future = last.pre_future

\* C9: for an advance of amount P created on date c that received no payment,
\* the statement as of d >= c reports principal P and interest payable
\* P x rate x (d - c + 1); calculate(P, n) is P x rate x n.
C9_StatementAccrual ==
    /\ last.op = "statement" =>
        \A i \in Advs :
            LET a == actives_advances[i]
                o == last.out.individual_advance_statement[i]
            IN (a.interest_paid = Zero /\ a.balance = a.initial_amount) =>
                /\ o.balance = a.initial_amount
                /\ o.interest_payable_balance =
                     SimpleInterest(a.initial_amount, last.date - a.created_at + 1)
    /\ last.op = "statement" =>
        \A i \in Advs : \A n \in 0..(MaxDay + 1) :
            Calculate(actives_advances[i].balance, n)
                = SimpleInterest(actives_advances[i].balance, n)

C9_Witness ==
    /\ last.op = "statement"
    /\ last.prev_op = "payment"
    /\ Len(actives_advances) >= 2
    /\ \E i \in Advs :
        /\ actives_advances[i].interest_paid = Zero
        /\ actives_advances[i].balance = actives_advances[i].initial_amount
        /\ last.date > actives_advances[i].created_at
    /\ \E i \in Advs : actives_advances[i].balance[2] # 0

\* C10: pay_interest(amount, as_of) accrues through as_of exactly, then with
\* owed the interest payable after that accrual: interest payable becomes
\* owed - min(amount, owed), interest paid grows by min(amount, owed), the
\* remainder returned is amount - min(amount, owed), principal is unchanged.
C10_PayInterest ==
    last.pay_ran =>
        \A i \in 1..Len(last.calls) :
            LET before == last.pay_pre[i]
                after == last.mid[i]
                amount == last.calls[i]
                owed == Owed(before, last.date)
                paid == Min(amount, owed)
                rem == IF i < Len(last.calls) THEN last.calls[i + 1]
                       ELSE last.interest_rem
            IN /\ after.updated_at = last.date
               /\ after.interest_payable_balance = Sub(owed, paid)
               /\ after.interest_paid = Add(before.interest_paid, paid)
               /\ rem = Sub(amount, paid)
               /\ after.balance = before.balance

C10_Witness ==
    /\ last.pay_ran
    /\ Len(last.calls) >= 2
    /\ GT(last.mid[2].interest_payable_balance, Zero)
    /\ GT(last.mid[2].interest_paid, last.pay_pre[2].interest_paid)
    /\ last.mid[1].interest_payable_balance = Zero
    /\ GT(last.mid[1].interest_paid, last.pay_pre[1].interest_paid)

\* the sum of the amounts of f, taken from the last one back to the first
RECURSIVE SumFrom(_, _)
SumFrom(f, i) == IF i > Len(f) THEN Zero ELSE Add(f[i], SumFrom(f, i + 1))

\* C11: the global statement as of d has one entry per advance in creation
\* order, each entry being the advance accrued through d + 1 day; the three
\* totals are the sums over the entries of principal, interest payable and
\* interest paid; the balance applicable to future advances is the engine's
\* future credit, which the query leaves unchanged.
C11_StatementAggregates ==
    last.op = "statement" =>
        LET o == last.out
            e == o.individual_advance_statement
            n == Len(last.pre)
        IN /\ Len(e) = n
           /\ \A i \in 1..n :
                /\ e[i].identifier = i
                /\ e[i].created_at = last.pre[i].created_at
                /\ e[i].initial_amount = last.pre[i].initial_amount
                /\ e[i].balance = last.pre[i].balance
                /\ e[i].interest_payable_balance = Owed(last.pre[i], last.date + 1)
                /\ e[i].interest_paid = last.pre[i].interest_paid
           /\ o.overall_advance_balance =
                SumFrom([i \in 1..n |-> e[i].balance], 1)
           /\ o.overall_interest_payable_balance =
                SumFrom([i \in 1..n |-> e[i].interest_payable_balance], 1)
           /\ o.overall_interest_paid =
                SumFrom([i \in 1..n |-> e[i].interest_paid], 1)
           /\ o.overall_payments_for_future = last.pre_future
           /\ overall_payments_for_future = last.pre_future

C11_Witness ==
    /\ last.op = "statement"
    /\ Len(last.out.individual_advance_statement) >= 2
    /\ GT(last.out.overall_interest_paid, Zero)
    /\ GT(last.out.overall_interest_payable_balance, Zero)
    /\ last.out.overall_interest_paid # last.out.overall_interest_payable_balance
    /\ last.out.individual_advance_statement[1].interest_payable_balance
         # last.out.individual_advance_statement[2].interest_payable_balance

\* C12: the k-th advance of the collection has identifier k; the collection
\* only grows, by one advance per advance event and at its end; payments and
\* statements add, remove and reorder nothing; no call changes the identifier,
\* created_at or initial_amount of an existing advance.
C12_AppendOnly ==
    /\ \A i \in Advs : actives_advances[i].identifier = i
    /\ Len(actives_advances) =
          Len(last.pre) + (IF last.op = "advance" THEN 1 ELSE 0)
    /\ \A i \in Pre :
        /\ actives_advances[i].identifier = last.pre[i].identifier
        /\ actives_advances[i].created_at = last.pre[i].created_at
        /\ actives_advances[i].initial_amount = last.pre[i].initial_amount
    /\ last.op = "advance" =>
        /\ actives_advances[Len(actives_advances)].created_at = last.date
        /\ actives_advances[Len(actives_advances)].initial_amount = last.amount

C12_Witness ==
    /\ last.op = "payment"
    /\ last.prev_op = "statement"
    /\ Len(actives_advances) >= 2
    /\ GT(last.pre[2].balance, actives_advances[2].balance)

\* C13: the updated_at of an advance never decreases across a call, a
\* statement as of d followed by an event dated d included, and is never
\* before its created_at.
C13_UpdatedAtMonotone ==
    /\ \A i \in Pre : actives_advances[i].updated_at >= last.pre[i].updated_at
    /\ \A i \in Advs :
          actives_advances[i].updated_at >= actives_advances[i].created_at

\* the remainder returned by the i-th call of a loop that was handed calls
RemAfter(calls, i, final) == IF i < Len(calls) THEN calls[i + 1] ELSE final

\* C14: Advance.pay with an amount >= 0 takes min(amount, principal) off the
\* principal, returns the rest of the amount, and leaves interest payable,
\* interest paid and updated_at as they were: it triggers no accrual.
C14_PayPureSubtraction ==
    last.pay_ran =>
        /\ \A i \in 1..Len(last.principal_calls) :
            LET before == last.mid[i]
                after == actives_advances[i]
                amount == last.principal_calls[i]
                paid == Min(amount, before.balance)
            IN /\ LE(Zero, amount)
               /\ after.balance = Sub(before.balance, paid)
               /\ RemAfter(last.principal_calls, i, last.principal_rem)
                    = Sub(amount, paid)
               /\ after.interest_payable_balance = before.interest_payable_balance
               /\ after.interest_paid = before.interest_paid
               /\ after.updated_at = before.updated_at
        /\ \A i \in (Len(last.principal_calls) + 1)..Len(actives_advances) :
            actives_advances[i] = last.mid[i]

C14_Witness ==
    /\ last.pay_ran
    /\ Len(last.principal_calls) >= 2
    /\ actives_advances[1].balance = Zero
    /\ GT(actives_advances[1].interest_paid, Zero)
    /\ GT(actives_advances[2].balance, Zero)
    /\ GT(last.mid[2].balance, actives_advances[2].balance)
    /\ GT(actives_advances[2].interest_paid, Zero)

\* C15: in one pay_advance call, advance j receives interest only if every
\* advance created before it ends the interest phase with no interest payable,
\* and its principal is reduced only if every advance created before it ends
\* the call with no principal; once the amount is used up in the interest
\* phase the later advances are left as they were, unaccrued, and no principal
\* is touched.
C15_CreationOrderAllocation ==
    last.pay_ran =>
        /\ \A j \in Advs :
            GT(last.mid[j].interest_paid, last.pay_pre[j].interest_paid) =>
                \A i \in 1..(j - 1) : last.mid[i].interest_payable_balance = Zero
        /\ \A j \in Advs :
            GT(last.pay_pre[j].balance, actives_advances[j].balance) =>
                \A i \in 1..(j - 1) : actives_advances[i].balance = Zero
        /\ \A i \in 1..Len(last.calls) :
            RemAfter(last.calls, i, last.interest_rem) = Zero =>
                /\ \A j \in (i + 1)..Len(actives_advances) :
                    actives_advances[j] = last.pay_pre[j]
                /\ \A j \in Advs :
                    actives_advances[j].balance = last.pay_pre[j].balance
                /\ last.principal_calls = <<>>

C15_Witness ==
    /\ last.pay_ran
    /\ last.interest_rem = Zero
    /\ Len(last.calls) < Len(actives_advances)
    /\ \E j \in (Len(last.calls) + 1)..Len(actives_advances) :
        /\ actives_advances[j].updated_at < last.date
        /\ GT(actives_advances[j].balance, Zero)

\* C16: an advance with no principal has no interest payable; across every
\* later call its principal and interest payable stay 0 and its interest paid
\* does not change; pay_interest and pay called on it return the whole amount
\* they were handed.
C16_PaidStaysPaid ==
    /\ \A i \in Advs :
        actives_advances[i].balance = Zero =>
            actives_advances[i].interest_payable_balance = Zero
    /\ \A i \in Pre :
        last.pre[i].balance = Zero =>
            /\ actives_advances[i].balance = Zero
            /\ actives_advances[i].interest_payable_balance = Zero
            /\ actives_advances[i].interest_paid = last.pre[i].interest_paid
    /\ last.pay_ran =>
        /\ \A i \in 1..Len(last.calls) :
            last.pay_pre[i].balance = Zero =>
                RemAfter(last.calls, i, last.interest_rem) = last.calls[i]
        /\ \A i \in 1..Len(last.principal_calls) :
            last.mid[i].balance = Zero =>
                RemAfter(last.principal_calls, i, last.principal_rem)
                    = last.principal_calls[i]

C16_Witness ==
    /\ last.pay_ran
    /\ Len(last.principal_calls) >= 2
    /\ last.pay_pre[1].balance = Zero
    /\ GT(last.pay_pre[1].interest_paid, Zero)
    /\ last.date > last.pay_pre[1].updated_at

TotalInterestPaid(advs) == SumFrom([i \in 1..Len(advs) |-> advs[i].interest_paid], 1)
TotalBalance(advs) == SumFrom([i \in 1..Len(advs) |-> advs[i].balance], 1)

\* C17: a payment of amount m > 0 is the growth of the total interest paid plus
\* the fall of the total principal plus the growth of the future credit; for an
\* advance event of amount A the credit c held before is the growth of the
\* total interest paid plus A less the principal of the new advance plus the
\* credit left.
C17_Conservation ==
    /\ last.op = "payment" =>
        last.amount =
            Add(Add(Sub(TotalInterestPaid(actives_advances),
                        TotalInterestPaid(last.pre)),
                    Sub(TotalBalance(last.pre), TotalBalance(actives_advances))),
                Sub(overall_payments_for_future, last.pre_future))
    /\ last.op = "advance" =>
        last.pre_future =
            Add(Add(Sub(TotalInterestPaid(actives_advances),
                        TotalInterestPaid(last.pre)),
                    Sub(last.amount,
                        actives_advances[Len(actives_advances)].balance)),
                overall_payments_for_future)

C17_Witness ==
    /\ last.op = "payment"
    /\ Len(actives_advances) >= 2
    /\ GT(TotalInterestPaid(actives_advances), TotalInterestPaid(last.pre))
    /\ GT(TotalBalance(last.pre), TotalBalance(actives_advances))
    /\ GT(TotalBalance(actives_advances), Zero)
    /\ GT(last.pre_future, Zero) \/ last.prev_op = "statement"

\* C18: after every complete call the future credit is >= 0, and while it is
\* > 0 every advance has no principal and no interest payable.
C18_CreditImpliesNoDebt ==
    /\ LE(Zero, overall_payments_for_future)
    /\ GT(overall_payments_for_future, Zero) =>
        \A i \in Advs :
            /\ actives_advances[i].balance = Zero
            /\ actives_advances[i].interest_payable_balance = Zero

C18_Witness ==
    /\ GT(overall_payments_for_future, Zero)
    /\ Len(actives_advances) >= 2
    /\ last.op = "payment"
    /\ last.pre_future = Zero
    /\ \A i \in Advs : GT(actives_advances[i].interest_paid, Zero)

\* ---------------------------------------------------------- reference runs
\* The engine run next to two reference runs that receive the same events.

\* every advance of the daily run charged rate x principal for each of the days
\* day, day + 1, ..., date - 1
RECURSIVE AccrueDaily(_, _, _, _)
AccrueDaily(advs, accrued, day, date) ==
    IF day >= date THEN [advs |-> advs, accrued |-> accrued]
    ELSE AccrueDaily(
            [i \in 1..Len(advs) |->
                [advs[i] EXCEPT
                    !.interest_payable_balance =
                        Add(@, SimpleInterest(advs[i].balance, 1)),
                    !.updated_at = day + 1]],
            [i \in 1..Len(advs) |->
                Add(accrued[i], SimpleInterest(advs[i].balance, 1))],
            day + 1, date)

\* create_advance or pay_advance, by the type of the event
Handle(type, advs, future, amount, date) ==
    IF type = "advance" THEN CreateAdvance(advs, future, amount, date)
    ELSE PayAdvance(advs, future, amount, date)

\* the reference runs after an event
ReferenceEvent(type, amount, date) ==
    Bind(Handle(type, reference.plain_advs, reference.plain_future, amount, date),
         LAMBDA plain :
    Bind(AccrueDaily(reference.daily_advs, reference.daily_accrued,
                     reference.day, date), LAMBDA acc :
    Bind(Handle(type, acc.advs, reference.daily_future, amount, date),
         LAMBDA daily :
        [plain_advs |-> plain.advs,
         plain_future |-> plain.future,
         daily_advs |-> daily.advs,
         daily_accrued |-> IF type = "advance" THEN Append(acc.accrued, Zero)
                           ELSE acc.accrued,
         daily_future |-> daily.future,
         day |-> date,
         asked |-> 0 - 1,
         strict |-> reference.strict /\ reference.asked < date,
         intermediate |-> reference.intermediate \/ reference.asked >= 0])))

\* the reference runs after a statement: neither run is asked anything
ReferenceStatement(date) ==
    [reference EXCEPT !.asked = IF date > @ THEN date ELSE @]

ApplyWithReference(op, amount, date, event_date, r, out, ref) ==
    /\ Step(op, amount, date, event_date, r, out)
    /\ reference' = ref
    /\ UNCHANGED <<events, report>>

AdvanceEventWithReference ==
    /\ nops < MaxOps
    /\ \E amount \in AdvanceAmounts, date \in replay_date..MaxDay :
        ApplyWithReference("advance", amount, date, date,
            CreateAdvance(actives_advances, overall_payments_for_future,
                          amount, date),
            NoOut, ReferenceEvent("advance", amount, date))

PaymentEventWithReference ==
    /\ nops < MaxOps
    /\ \E amount \in PaymentAmounts, date \in replay_date..MaxDay :
        ApplyWithReference("payment", amount, date, date,
            PayAdvance(actives_advances, overall_payments_for_future,
                       amount, date),
            NoOut, ReferenceEvent("payment", amount, date))

StatementWithReference(date, r, ref) ==
    ApplyWithReference("statement", Zero, date, replay_date, r, r.out, ref)

StatementQueryWithReference ==
    /\ nops < MaxOps
    /\ \E date \in replay_date..MaxDay :
        StatementWithReference(date,
            Reported(GetGlobalStatement(actives_advances,
                                        overall_payments_for_future, date)),
            ReferenceStatement(date))

NextRef ==
    \/ AdvanceEventWithReference
    \/ PaymentEventWithReference
    \/ StatementQueryWithReference

SpecRef == Init /\ [][NextRef]_vars

\* C19: when every statement made between the events was as of a date not
\* before the last event applied and before the date of the next event, the
\* statement as of D equals the statement as of D of the run that received the
\* same events and no intermediate statement: same entry for every advance,
\* same totals, same future credit.
C19_QueriesDoNotPerturb ==
    (last.op = "statement" /\ reference.strict) =>
        last.out = GetGlobalStatement(reference.plain_advs, reference.plain_future,
                                      last.date).out

C19_Witness ==
    /\ last.op = "statement"
    /\ reference.strict
    /\ reference.intermediate
    /\ last.pre # reference.plain_advs
    /\ GT(last.out.overall_interest_payable_balance, Zero)

\* C20: in the statement as of D the interest ever accrued by an advance,
\* interest payable plus interest paid, is the sum over the days from its
\* created_at through D of rate x the principal it held when that day was
\* charged, the events of a date being applied before the day of that date is
\* charged.  The principal of the daily run is the principal of the engine in
\* every state, so the daily charges are made on the principal the advance
\* really held.
C20_LazyEqualsDaily ==
    /\ Len(actives_advances) = Len(reference.daily_advs)
    /\ \A i \in Advs :
        actives_advances[i].balance = reference.daily_advs[i].balance
    /\ last.op = "statement" =>
        LET e == last.out.individual_advance_statement
            daily == AccrueDaily(reference.daily_advs, reference.daily_accrued,
                                 reference.day, last.date + 1)
        IN /\ Len(e) = Len(daily.accrued)
           /\ \A i \in 1..Len(e) :
                Add(e[i].interest_payable_balance, e[i].interest_paid)
                    = daily.accrued[i]

C20_Witness ==
    /\ last.op = "statement"
    /\ last.date > reference.day
    /\ \E i \in Pre :
        /\ last.pre[i].updated_at < reference.day
        /\ GT(last.pre[i].balance, Zero)
    /\ \E i \in Pre : GT(last.pre[i].interest_paid, Zero)

====
